---- MODULE Spec2Model ----
(***************************************************************************)
(* Carpool Connect: the trip booking workflow (POST /trips/:id/book of     *)
(* routes/index.js) run against the relational store of the schema         *)
(* (profiles, trips, bookings and their constraints).                      *)
(*                                                                         *)
(* One request is one run of the handler.  The handler awaits every store  *)
(* call, so requests interleave at store calls: each action below is one   *)
(* store call together with the synchronous code that follows it up to     *)
(* the next await.                                                         *)
(*                                                                         *)
(* A store read returns the committed rows.  A store write can be refused  *)
(* by a constraint of the schema or fail on its own (the handler's error   *)
(* branches); a refused or failed write changes nothing.                   *)
(*                                                                         *)
(* SpecAuth runs the auth middleware (utils/auth.js) on one request, and   *)
(* SpecApi runs one call of the external-API layer (getRoute) or of a      *)
(* route of /api (geocode, route, health), for every input and every       *)
(* behaviour of the service called.  SpecFetch runs one call of            *)
(* fetchWithTimeout through its attempts, and SpecPages runs one request   *)
(* of the trip pages (listing, detail, creation) or one failed write of a  *)
(* booking request up to the response it sends.                            *)
(***************************************************************************)
EXTENDS Integers, FiniteSets, Sequences, TLC

\* ---------------------------------------------------------------- bounds
MaxSubmits == 3       \* requests submitted in one behaviour
MaxSeats == 2         \* largest available_seats of a newly created trip
MaxFaults == 1        \* store writes that fail on their own in one behaviour
MaxRetries == 2       \* largest retries argument of a fetchWithTimeout call

\* ------------------------------------------------------------ identities
Users == {"d1", "p1", "p2", "p3"}
Anonymous == "anonymous"
TripIds == {"t1"}
MissingTripId == "t9"
\* a req.params.id that is not a UUID
MalformedTripId == "not-a-uuid"
DriverOf == [t \in TripIds |-> "d1"]
Drivers == {DriverOf[t] : t \in TripIds}
\* handler runs that overlap in time
Requests == {1, 2}

\* the clock at the requests of a behaviour, and departure timestamps
\* before and after it
Now == 2
PastTime == 1
FutureTime == 3

NoTrip == [driver_id |-> "none", available_seats |-> -1,
           departure_timestamp |-> 0]
NoBooking == 0

\* profiles      ids of the rows of profiles
\* trips         the rows of trips: driver_id and available_seats by id
\* bookings      the rows of bookings: id, trip_id, passenger_id
\* req           each handler run: its position (pc), req.user.id, req.params.id,
\*               the trip row it loaded, the response it sent, booking[0].id,
\*               the relations it wrote, and how its insert and update ended
\* submitted     requests received so far
\* faults        store writes that failed on their own so far
\* seatsChecked  whether the trips relation carries valid_seats: it does in
\*               the shipped schema (Spec); SpecAnyStore also covers a trips
\*               relation created without it, where available_seats reaches 0
\* initialSeats  available_seats of each trip when it was created
\* touched       the relations each handler run has called, to read or write
\* mw            one run of an auth middleware: which one, what the request
\*               carried, and what the middleware did
\* api           one call of the external-API layer or of a route of
\*               /api: what it was given, how the services it calls behave,
\*               and what it answered
\* ft            one call of fetchWithTimeout: the retries it was given and
\*               has left, its position, the outcome of each fetch attempt,
\*               the timeout timers pending, the waits between attempts,
\*               and the error it raised
\* pg            one request of the trip pages (listing, detail, creation)
\*               or one failed write of a booking request: what it carried,
\*               the rows of trips it reads, how the store call ends, and
\*               the response sent
VARIABLES profiles, trips, bookings, req, submitted, faults, seatsChecked,
          initialSeats, touched, mw, api, ft, pg

vars == <<profiles, trips, bookings, req, submitted, faults, seatsChecked,
          initialSeats, touched, mw, api, ft, pg>>

\* ------------------------------------------------------------ the schema
\* trips: CONSTRAINT valid_seats CHECK (available_seats > 0)
valid_seats(n) == n > 0

no_duplicate_booking_dropped(bk, row) == TRUE

\* bookings: CONSTRAINT no_duplicate_booking UNIQUE (trip_id, passenger_id)
no_duplicate_booking(bk, row) ==
  ~\E b \in bk : b.trip_id = row.trip_id /\ b.passenger_id = row.passenger_id

\* bookings: CONSTRAINT no_self_booking CHECK (trip_id != passenger_id)
no_self_booking(row) == row.trip_id # row.passenger_id

\* bookings: trip_id REFERENCES trips(id), passenger_id REFERENCES profiles(id)
bookings_fkeys(pf, row) == row.trip_id \in TripIds /\ row.passenger_id \in pf

\* bookings.id: uuid_generate_v4(), a fresh value for every row
NewBookingId(bk) == Cardinality(bk) + 1

BookingsOf(t) == {b \in bookings : b.trip_id = t}

\* ------------------------------------------------------- authentication
\* a value JavaScript reads as undefined, and the null of getTokenFromRequest
NoValue == "undefined"
NoToken == "null"

\* access tokens: the provider accepts the tokens of its live sessions; an
\* expired token still names its subject
TokenSubject == [tok_d1 |-> "d1", tok_p1 |-> "p1", tok_p2 |-> "p2",
                 tok_p3 |-> "p3", old_p2 |-> "p2"]
LiveTokens == {"tok_d1", "tok_p1", "tok_p2", "tok_p3"}

\* what a request carries: req.cookies.sb_access_token, the words of
\* req.headers.authorization as split(' ') yields them (<<>>: no header),
\* and whether the provider call of this request returns or throws
Cookies == {NoValue, "", "tok_d1", "tok_p1", "tok_p2", "tok_p3", "old_p2"}
Headers == {<<>>, <<"Bearer">>, <<"Bearer", "tok_p3">>, <<"Bearer", "old_p2">>,
            <<"Basic", "tok_p1">>}
Providers == {"answers", "throws"}

\* the booking requests: one for each caller and for each way the middleware
\* leaves a request without req.user
NoCredentials == [cookie |-> NoValue, header |-> <<>>, provider |-> "answers"]
CookieOfP1 == [cookie |-> "tok_p1", header |-> <<>>, provider |-> "answers"]
BookingCredentials ==
  {NoCredentials,
   [cookie |-> "tok_d1", header |-> <<>>, provider |-> "answers"],
   CookieOfP1,
   [cookie |-> "tok_p2", header |-> <<>>, provider |-> "answers"],
   [cookie |-> NoValue, header |-> <<"Bearer", "tok_p3">>, provider |-> "answers"],
   [cookie |-> "old_p2", header |-> <<"Bearer", "tok_p3">>, provider |-> "answers"],
   [cookie |-> "tok_p1", header |-> <<>>, provider |-> "throws"]}

\* what a booking request carries: any of the credentials with the id of a
\* trip or of no trip; a malformed id comes from p1 or without credentials
BookingInputs ==
  {[c |-> c, t |-> t] : c \in BookingCredentials,
                        t \in TripIds \cup {MissingTripId}}
  \cup {[c |-> c, t |-> MalformedTripId] : c \in {NoCredentials, CookieOfP1}}

\* a value JavaScript's || and ! take as false
Falsy(v) == v \in {NoValue, ""}

\* supabase.auth.getUser(token): the user of a live session, else an error
getUser(token) ==
  IF token \in LiveTokens THEN TokenSubject[token] ELSE Anonymous

\* header.split(' ')[1], then cookie || bearer || null
getTokenFromRequest(cookie, header) ==
  LET bearer == IF Len(header) >= 2 THEN header[2] ELSE NoValue
  IN  IF ~Falsy(cookie) THEN cookie
      ELSE IF ~Falsy(bearer) THEN bearer
      ELSE NoToken

\* the middleware's effect on the request: req.user, the calls of next(),
\* the redirect it sent, whether it called the provider and what the
\* provider returned, and whether it cleared the cookie
Passed(token, asked, returned, user) ==
  [token |-> token, asked |-> asked, returned |-> returned, user |-> user,
   next |-> 1, redirect |-> "none", cleared |-> FALSE]

ToLogin(token, asked, returned, cleared) ==
  [token |-> token, asked |-> asked, returned |-> returned,
   user |-> Anonymous, next |-> 0, redirect |-> "/auth/login",
   cleared |-> cleared]

optionalAuthTrustsToken(cookie, header, provider) ==
  LET token == getTokenFromRequest(cookie, header)
  IN  IF token = NoToken THEN Passed(token, FALSE, Anonymous, Anonymous)
      ELSE IF provider = "throws"
           THEN Passed(token, TRUE, Anonymous, Anonymous)
           ELSE Passed(token, TRUE, getUser(token), TokenSubject[token])

optionalAuth(cookie, header, provider) ==
  LET token == getTokenFromRequest(cookie, header)
  IN  IF token = NoToken THEN Passed(token, FALSE, Anonymous, Anonymous)
      ELSE IF provider = "throws"
           THEN Passed(token, TRUE, Anonymous, Anonymous)
           ELSE Passed(token, TRUE, getUser(token), getUser(token))

requireAuthMissingReturn(cookie, header, provider) ==
  LET token == getTokenFromRequest(cookie, header)
  IN  IF token = NoToken THEN ToLogin(token, FALSE, Anonymous, FALSE)
      ELSE IF provider = "throws"
           THEN ToLogin(token, TRUE, Anonymous, TRUE)
           ELSE IF getUser(token) = Anonymous
                THEN [ToLogin(token, TRUE, Anonymous, TRUE) EXCEPT !.next = 1]
                ELSE Passed(token, TRUE, getUser(token), getUser(token))

requireAuth(cookie, header, provider) ==
  LET token == getTokenFromRequest(cookie, header)
  IN  IF token = NoToken THEN ToLogin(token, FALSE, Anonymous, FALSE)
      ELSE IF provider = "throws"
           THEN ToLogin(token, TRUE, Anonymous, TRUE)
           ELSE IF getUser(token) = Anonymous
                THEN ToLogin(token, TRUE, Anonymous, TRUE)
                ELSE Passed(token, TRUE, getUser(token), getUser(token))

\* no middleware has run
NoEffect == [token |-> NoToken, asked |-> FALSE, returned |-> Anonymous,
             user |-> Anonymous, next |-> 0, redirect |-> "none",
             cleared |-> FALSE]

IdleMiddleware ==
  [mode |-> "none", pc |-> "idle", cookie |-> NoValue, header |-> <<>>,
   provider |-> "answers", out |-> NoEffect]

\* a request reaches a route guarded by requireAuth
RunRequireAuth ==
  /\ mw.pc = "received"
  /\ mw.mode = "requireAuth"
  /\ mw' = [mw EXCEPT !.pc = "done",
                      !.out = requireAuth(mw.cookie, mw.header, mw.provider)]
  /\ UNCHANGED <<profiles, trips, bookings, req, submitted, faults,
                 seatsChecked, initialSeats, touched, api, ft, pg>>

\* a request reaches a route guarded by optionalAuth
RunOptionalAuth ==
  /\ mw.pc = "received"
  /\ mw.mode = "optionalAuth"
  /\ mw' = [mw EXCEPT !.pc = "done",
                      !.out = optionalAuth(mw.cookie, mw.header, mw.provider)]
  /\ UNCHANGED <<profiles, trips, bookings, req, submitted, faults,
                 seatsChecked, initialSeats, touched, api, ft, pg>>

\* ------------------------------------------------- external-API layer
\* JavaScript values of a request body or of the environment: a number, a
\* string (num is its length), or undefined
Num(n) == [type |-> "number", num |-> n]
Text(n) == [type |-> "string", num |-> n]
Undefined == [type |-> "undefined", num |-> 0]
NaN == [type |-> "NaN", num |-> 0]

\* !v
Not(v) == v.type \in {"undefined", "NaN"} \/ v.num = 0

\* a point of a request body: absent, or an object with lat and lng
Coordinates == {Num(0), Num(1), Text(5), Undefined}
NoPoint == [present |-> FALSE, lat |-> Undefined, lng |-> Undefined]
Points == {NoPoint} \cup
          {[present |-> TRUE, lat |-> a, lng |-> b] :
             a \in Coordinates, b \in Coordinates}
NumericPoints == {q \in Points : /\ q.present
                                 /\ q.lat.type = "number"
                                 /\ q.lng.type = "number"}

\* an API key: undefined, or a string of some length whose characters are
\* all from [a-zA-Z0-9_-] (plain) or not
MinOrsKeyLength == 50
NoKey == [type |-> "undefined", num |-> 0, plain |-> TRUE]
ValidKey == [type |-> "string", num |-> 80, plain |-> TRUE]
ApiKeys == {NoKey} \cup
           {[type |-> "string", num |-> n, plain |-> c] :
              n \in {0, MinOrsKeyLength - 1, MinOrsKeyLength, 80},
              c \in BOOLEAN}

\* validateApiKey(apiKey, 'openrouteservice')
validateApiKey(apiKey) ==
  IF Not(apiKey) \/ apiKey.type # "string" THEN FALSE
  ELSE apiKey.num >= MinOrsKeyLength /\ apiKey.plain

\* how a call of a remote service ends.  The routing provider: a response
\* with routes, a response without routes, or fetchWithTimeout throws
\* (timeout, connection error, HTTP error, after its retries).  The
\* geocoder: a response with 0, 1 or 2 places, or fetchWithTimeout throws.
RoutingOutcomes == {"routes", "no_routes", "fails"}
GeocoderOutcomes == {"places0", "places1", "places2", "fails"}
PlacesOf == [places0 |-> 0, places1 |-> 1, places2 |-> 2, fails |-> 0]

RouteKeys == {"distance", "duration", "geometry", "bbox"}

Smaller(a, b) ==
  IF a.type = "number" /\ b.type = "number"
  THEN (IF a.num <= b.num THEN a ELSE b) ELSE NaN

Larger(a, b) ==
  IF a.type = "number" /\ b.type = "number"
  THEN (IF a.num >= b.num THEN a ELSE b) ELSE NaN

\* what a call of the routing functions yields: it throws, or returns an
\* object with these keys, this geometry.coordinates and this bbox; source
\* and attempted record which function built it and whether the provider
\* was called.  distance and duration are real numbers (haversine) and are
\* kept as keys only.
Thrown(attempted) ==
  [thrown |-> TRUE, attempted |-> attempted, source |-> "none", keys |-> {},
   coordinates |-> <<>>, bbox |-> <<>>]

getSimpleRoute(origin, destination) ==
  [thrown |-> FALSE, attempted |-> FALSE, source |-> "fallback",
   keys |-> RouteKeys,
   coordinates |-> << <<origin.lng, origin.lat>>,
                      <<destination.lng, destination.lat>> >>,
   bbox |-> << Smaller(origin.lng, destination.lng),
               Smaller(origin.lat, destination.lat),
               Larger(origin.lng, destination.lng),
               Larger(origin.lat, destination.lat) >>]

\* the provider's route: its geometry and bbox are the provider's own
getOpenRouteServiceRoute(origin, destination, apiKey, routing) ==
  IF routing = "routes"
  THEN [thrown |-> FALSE, attempted |-> TRUE, source |-> "provider",
        keys |-> RouteKeys,
        coordinates |-> << <<origin.lng, origin.lat>>,
                           <<destination.lng, origin.lat>>,
                           <<destination.lng, destination.lat>> >>,
        bbox |-> << Smaller(origin.lng, destination.lng),
                    Smaller(origin.lat, destination.lat),
                    Larger(origin.lng, destination.lng),
                    Larger(origin.lat, destination.lat) >>]
  ELSE Thrown(TRUE)

getRouteRethrows(origin, destination, apiKey, routing) ==
  IF ~Not(apiKey) /\ validateApiKey(apiKey)
  THEN getOpenRouteServiceRoute(origin, destination, apiKey, routing)
  ELSE getSimpleRoute(origin, destination)

getRoute(origin, destination, apiKey, routing) ==
  IF ~Not(apiKey) /\ validateApiKey(apiKey)
  THEN LET ors == getOpenRouteServiceRoute(origin, destination, apiKey, routing)
       IN  IF ors.thrown
           THEN [getSimpleRoute(origin, destination) EXCEPT !.attempted = TRUE]
           ELSE ors
  ELSE getSimpleRoute(origin, destination)

\* geocodeAddress(address, null, limit): {suggestions: []} for no place, the
\* first place alone for limit === 1, else {suggestions}; a failed fetch is
\* thrown again as 'Geocoding failed'
geocodeAddress(address, limit, geocoder) ==
  IF geocoder = "fails"
  THEN [thrown |-> TRUE, shape |-> "none", places |-> 0]
  ELSE IF PlacesOf[geocoder] = 0
       THEN [thrown |-> FALSE, shape |-> "suggestions", places |-> 0]
       ELSE IF limit = Num(1)
            THEN [thrown |-> FALSE, shape |-> "place", places |-> 1]
            ELSE [thrown |-> FALSE, shape |-> "suggestions",
                  places |-> PlacesOf[geocoder]]

\* checkApiHealth(): the health object by key.  A service entry is an object
\* with a status; timestamp is a string
Service(status) == [type |-> "object", status |-> status]
Timestamp == [type |-> "string", status |-> NoValue]

checkApiHealth(storage, envKey, orsHealth) ==
  [supabase |-> Service(IF storage = "throws" THEN "unhealthy" ELSE "healthy"),
   openrouteservice |->
     Service(IF ~Not(envKey) /\ validateApiKey(envKey)
             THEN (IF orsHealth = "ok" THEN "healthy" ELSE "unhealthy")
             ELSE "not_configured"),
   timestamp |-> Timestamp]

\* service.status: undefined on a string
StatusOf(v) == IF v.type = "object" THEN v.status ELSE NoValue

\* Object.values(health).every(...)
allHealthy(health) ==
  \A k \in DOMAIN health :
    StatusOf(health[k]) \in {"healthy", "not_configured"}

IdleApi ==
  [op |-> "none", pc |-> "idle", origin |-> NoPoint, destination |-> NoPoint,
   apiKey |-> NoKey, envKey |-> NoKey, routing |-> "fails",
   address |-> Undefined, limit |-> Num(1), geocoder |-> "fails",
   storage |-> "rows", orsHealth |-> "ok",
   thrown |-> FALSE, attempted |-> FALSE, status |-> 0, body |-> "none",
   route |-> Thrown(FALSE), places |-> 0, services |-> <<>>]

\* a caller of the library calls getRoute(origin, destination, apiKey)
CallGetRoute ==
  /\ api.pc = "received"
  /\ api.op = "getRoute"
  /\ LET result == getRoute(api.origin, api.destination, api.apiKey,
                            api.routing)
     IN  api' = [api EXCEPT !.pc = "done", !.thrown = result.thrown,
                            !.attempted = result.attempted,
                            !.route = result]
  /\ UNCHANGED <<profiles, trips, bookings, req, submitted, faults,
                 seatsChecked, initialSeats, touched, mw, ft, pg>>

\* POST /api/route
PostRoute ==
  /\ api.pc = "received"
  /\ api.op = "POST /api/route"
  /\ IF \/ ~api.origin.present
        \/ ~api.destination.present
        \/ Not(api.origin.lat)
        \/ Not(api.origin.lng)
        \/ Not(api.destination.lat)
        \/ Not(api.destination.lng)
     THEN api' = [api EXCEPT !.pc = "done", !.status = 400,
                             !.body = "error"]
     ELSE LET result == getRoute(api.origin, api.destination, NoKey,
                                 api.routing)
          IN  api' = [api EXCEPT !.pc = "done",
                                 !.attempted = result.attempted,
                                 !.status = IF result.thrown THEN 500 ELSE 200,
                                 !.body = IF result.thrown THEN "error"
                                          ELSE "route",
                                 !.route = result]
  /\ UNCHANGED <<profiles, trips, bookings, req, submitted, faults,
                 seatsChecked, initialSeats, touched, mw, ft, pg>>

\* POST /api/geocode
PostGeocode ==
  /\ api.pc = "received"
  /\ api.op = "POST /api/geocode"
  /\ IF Not(api.address) \/ api.address.type # "string"
     THEN api' = [api EXCEPT !.pc = "done", !.status = 400,
                             !.body = "error"]
     ELSE LET result == geocodeAddress(api.address, api.limit, api.geocoder)
          IN  api' = [api EXCEPT !.pc = "done",
                                 !.thrown = result.thrown,
                                 !.status = IF result.thrown THEN 500 ELSE 200,
                                 !.body = IF result.thrown THEN "error"
                                          ELSE result.shape,
                                 !.places = result.places]
  /\ UNCHANGED <<profiles, trips, bookings, req, submitted, faults,
                 seatsChecked, initialSeats, touched, mw, ft, pg>>

\* GET /api/health
GetHealth ==
  /\ api.pc = "received"
  /\ api.op = "GET /api/health"
  /\ LET health == checkApiHealth(api.storage, api.envKey, api.orsHealth)
     IN  api' = [api EXCEPT !.pc = "done",
                            !.status = IF allHealthy(health) THEN 200 ELSE 503,
                            !.body = IF allHealthy(health) THEN "healthy"
                                     ELSE "degraded",
                            !.services = health]
  /\ UNCHANGED <<profiles, trips, bookings, req, submitted, faults,
                 seatsChecked, initialSeats, touched, mw, ft, pg>>

\* ------------------------------------------------------ fetchWithTimeout
\* API_CONFIG.RETRIES.DEFAULT, and the wait before a retry in milliseconds
RetriesDefault == 2
RetryDelayMs == 1000

\* how one fetch attempt ends: a response that is ok, a response with a
\* status of 4xx or 5xx, the timeout timer aborting the request, or fetch
\* rejecting for a reset connection, a failed DNS lookup, a refused
\* connection or a malformed URL
FetchOutcomes == {"ok", "http_4xx", "http_5xx", "timeout", "reset", "dns",
                  "refused", "bad_url"}

\* the error an attempt throws: its name and the signatures its message
\* contains
NoError == [name |-> "none", message |-> {}]
ErrorOf(outcome) ==
  CASE outcome = "http_4xx" -> [name |-> "Error", message |-> {"HTTP 4"}]
    [] outcome = "http_5xx" -> [name |-> "Error", message |-> {"HTTP 5"}]
    [] outcome = "timeout" -> [name |-> "AbortError", message |-> {"aborted"}]
    [] outcome = "reset" -> [name |-> "TypeError", message |-> {"fetch failed", "ECONNRESET"}]
    [] outcome = "dns" -> [name |-> "TypeError", message |-> {"fetch failed", "ENOTFOUND"}]
    [] outcome = "refused" ->
         [name |-> "TypeError",
          message |-> {"fetch failed", "ECONNREFUSED"}]
    [] outcome = "bad_url" ->
         [name |-> "TypeError", message |-> {"Invalid URL"}]
    [] OTHER -> NoError

retryableErrors == {"AbortError", "ETIMEDOUT", "ECONNRESET", "ENOTFOUND",
                    "ECONNREFUSED", "ConnectTimeoutError", "fetch failed"}

isRetryableError(error) ==
  \/ \E retryError \in retryableErrors :
       error.name = retryError \/ retryError \in error.message
  \/ "HTTP 5" \in error.message

IdleFetch ==
  [pc |-> "idle", given |-> 0, retries |-> 0, history |-> <<>>,
   timers |-> 0, waits |-> <<>>, error |-> NoError]

\* fetchWithTimeout is entered, by its caller or by itself for a retry: it
\* starts the timeout timer and calls fetch
FetchAttempt ==
  /\ ft.pc = "entered"
  /\ ft' = [ft EXCEPT !.pc = "fetching", !.timers = @ + 1]
  /\ UNCHANGED <<profiles, trips, bookings, req, submitted, faults,
                 seatsChecked, initialSeats, touched, mw, api, pg>>

FetchSettlesKeepsTimer ==
  /\ ft.pc = "fetching"
  /\ \E outcome \in FetchOutcomes :
       LET error == ErrorOf(outcome)
           timers == IF outcome \in {"ok", "timeout"}
                     THEN ft.timers - 1 ELSE ft.timers
           history == Append(ft.history, outcome)
       IN  IF outcome = "ok"
           THEN ft' = [ft EXCEPT !.pc = "returned", !.timers = timers,
                                 !.history = history]
           ELSE IF ft.retries > 0 /\ isRetryableError(error)
                THEN ft' = [ft EXCEPT !.pc = "waiting", !.timers = timers,
                                      !.history = history]
                ELSE ft' = [ft EXCEPT !.pc = "raised", !.timers = timers,
                                      !.history = history, !.error = error]
  /\ UNCHANGED <<profiles, trips, bookings, req, submitted, faults,
                 seatsChecked, initialSeats, touched, mw, api, pg>>

\* the fetch settles: the timer is cleared (or has fired); an ok response
\* is returned, anything else is thrown into the catch, which retries a
\* retryable error while retries are left and throws the error otherwise
FetchSettles ==
  /\ ft.pc = "fetching"
  /\ \E outcome \in FetchOutcomes :
       LET error == ErrorOf(outcome)
           timers == ft.timers - 1
           history == Append(ft.history, outcome)
       IN  IF outcome = "ok"
           THEN ft' = [ft EXCEPT !.pc = "returned", !.timers = timers,
                                 !.history = history]
           ELSE IF ft.retries > 0 /\ isRetryableError(error)
                THEN ft' = [ft EXCEPT !.pc = "waiting", !.timers = timers,
                                      !.history = history]
                ELSE ft' = [ft EXCEPT !.pc = "raised", !.timers = timers,
                                      !.history = history, !.error = error]
  /\ UNCHANGED <<profiles, trips, bookings, req, submitted, faults,
                 seatsChecked, initialSeats, touched, mw, api, pg>>

\* the wait before the retry ends: fetchWithTimeout(..., retries - 1)
FetchRetry ==
  /\ ft.pc = "waiting"
  /\ ft' = [ft EXCEPT !.pc = "entered", !.retries = @ - 1,
                      !.waits = Append(@, RetryDelayMs)]
  /\ UNCHANGED <<profiles, trips, bookings, req, submitted, faults,
                 seatsChecked, initialSeats, touched, mw, api, pg>>

\* --------------------------------------------------------- the handler
IdleRequest ==
  [pc |-> "idle", userId |-> Anonymous, validated |-> Anonymous,
   tripId |-> MissingTripId,
   trip |-> NoTrip, result |-> "none", bookingId |-> NoBooking,
   wrote |-> {}, insertOutcome |-> "none", updateError |-> FALSE]

EligibilityDriverUnchecked(userId, trip) ==
  IF trip.available_seats <= 0 THEN "no_seats" ELSE "eligible"

EligibilitySeatsUnchecked(userId, trip) ==
  IF userId = trip.driver_id THEN "driver_booking" ELSE "eligible"

EligibilitySeatsOffByOne(userId, trip) ==
  IF userId = trip.driver_id THEN "driver_booking"
  ELSE IF trip.available_seats < 0 THEN "no_seats"
  ELSE "eligible"

\* GET /trips/:id: canBook of the trip detail page
canBook(userId, trip) ==
  /\ userId # Anonymous
  /\ userId # trip.driver_id
  /\ trip.departure_timestamp > Now

\* STEP 3: the caller is not the driver and the loaded trip has a seat left
Eligibility(userId, trip) ==
  IF userId = trip.driver_id THEN "driver_booking"
  ELSE IF trip.available_seats <= 0 THEN "no_seats"
  ELSE "eligible"

\* res.redirect / res.render: the handler returns with its response
\* the first response sent is the one the caller gets
Finish(r, code) ==
  [req EXCEPT ![r].pc = "done",
              ![r].result = IF @ = "none" THEN code ELSE @]

\* a write that no constraint refuses fails on its own or goes through
Fails(failed) ==
  /\ failed => faults < MaxFaults
  /\ faults' = IF failed THEN faults + 1 ELSE faults

\* no handler runs in the slot
Free(r) == req[r].pc \in {"idle", "done"}

\* the request arrives and takes the first free slot; it passes optionalAuth,
\* and a request without req.user is sent to the login page
Submit(r) ==
  /\ Free(r)
  /\ \A q \in Requests : q < r => ~Free(q)
  /\ submitted < MaxSubmits
  /\ \E input \in BookingInputs :
       LET auth == optionalAuth(input.c.cookie, input.c.header,
                                input.c.provider)
           t == input.t
       IN  req' = [req EXCEPT ![r] =
                     IF auth.user = Anonymous
                     THEN [IdleRequest EXCEPT !.pc = "done",
                                              !.result = "login",
                                              !.validated = auth.returned,
                                              !.tripId = t]
                     ELSE [IdleRequest EXCEPT !.pc = "check_profile",
                                              !.userId = auth.user,
                                              !.validated = auth.returned,
                                              !.tripId = t]]
  /\ submitted' = submitted + 1
  /\ touched' = [touched EXCEPT ![r] = {}]
  /\ UNCHANGED <<profiles, trips, bookings, faults, seatsChecked, initialSeats, mw, api, ft, pg>>

\* STEP 1: select the caller's profile
CheckProfile(r) ==
  /\ req[r].pc = "check_profile"
  /\ touched' = [touched EXCEPT ![r] = @ \cup {"profiles"}]
  /\ req' = [req EXCEPT ![r].pc =
               IF req[r].userId \in profiles THEN "get_trip"
               ELSE "create_profile"]
  /\ UNCHANGED <<profiles, trips, bookings, submitted, faults, seatsChecked, initialSeats, mw, api, ft, pg>>

\* STEP 1: insert the caller's profile; profiles.id is the primary key
CreateProfile(r) ==
  /\ req[r].pc = "create_profile"
  /\ touched' = [touched EXCEPT ![r] = @ \cup {"profiles"}]
  /\ IF req[r].userId \in profiles
     THEN /\ req' = Finish(r, "profile_failed")
          /\ UNCHANGED <<profiles, faults>>
     ELSE \E failed \in BOOLEAN :
            /\ Fails(failed)
            /\ IF failed
               THEN /\ req' = Finish(r, "profile_failed")
                    /\ UNCHANGED profiles
               ELSE /\ profiles' = profiles \cup {req[r].userId}
                    /\ req' = [req EXCEPT ![r].pc = "get_trip",
                                          ![r].wrote = @ \cup {"profiles"}]
  /\ UNCHANGED <<trips, bookings, submitted, seatsChecked, initialSeats, mw, api, ft, pg>>

GetTripMissingReturn(r) ==
  /\ req[r].pc = "get_trip"
  /\ touched' = [touched EXCEPT ![r] = @ \cup {"trips"}]
  /\ IF req[r].tripId \notin TripIds
     THEN req' = Finish(r, "trip_not_found")
     ELSE LET trip == trips[req[r].tripId]
              verdict == Eligibility(req[r].userId, trip)
          IN  req' = [req EXCEPT
                        ![r].trip = trip,
                        ![r].pc = "check_booking",
                        ![r].result = IF verdict = "eligible"
                                      THEN "none" ELSE verdict]
  /\ UNCHANGED <<profiles, trips, bookings, submitted, faults, seatsChecked, initialSeats, mw, api, ft, pg>>

\* STEP 2 and STEP 3: select the trip, then the driver and the seats checks
GetTrip(r) ==
  /\ req[r].pc = "get_trip"
  /\ touched' = [touched EXCEPT ![r] = @ \cup {"trips"}]
  /\ IF req[r].tripId \notin TripIds
     THEN req' = Finish(r, "trip_not_found")
     ELSE LET trip == trips[req[r].tripId]
              verdict == Eligibility(req[r].userId, trip)
          IN  req' = [req EXCEPT
                        ![r].trip = trip,
                        ![r].pc = IF verdict = "eligible"
                                  THEN "check_booking" ELSE "done",
                        ![r].result = IF verdict = "eligible"
                                      THEN "none" ELSE verdict]
  /\ UNCHANGED <<profiles, trips, bookings, submitted, faults, seatsChecked, initialSeats, mw, api, ft, pg>>

\* STEP 3: select the caller's bookings of the trip
CheckExistingBooking(r) ==
  /\ req[r].pc = "check_booking"
  /\ touched' = [touched EXCEPT ![r] = @ \cup {"bookings"}]
  /\ LET existingBooking == {b \in bookings : /\ b.trip_id = req[r].tripId
                                              /\ b.passenger_id = req[r].userId}
     IN  req' = IF existingBooking # {}
                THEN Finish(r, "already_booked")
                ELSE [req EXCEPT ![r].pc = "create_booking"]
  /\ UNCHANGED <<profiles, trips, bookings, submitted, faults, seatsChecked, initialSeats, mw, api, ft, pg>>

CreateBookingMissingReturn(r) ==
  /\ req[r].pc = "create_booking"
  /\ touched' = [touched EXCEPT ![r] = @ \cup {"bookings"}]
  /\ LET row == [id |-> NewBookingId(bookings), trip_id |-> req[r].tripId,
                 passenger_id |-> req[r].userId]
     IN  IF ~(/\ no_duplicate_booking(bookings, row)
              /\ no_self_booking(row)
              /\ bookings_fkeys(profiles, row))
         THEN /\ req' = [req EXCEPT ![r].pc = "decrement_seats",
                                    ![r].result = "booking_failed",
                                    ![r].insertOutcome = "refused"]
              /\ UNCHANGED <<bookings, faults>>
         ELSE \E outcome \in {"row", "error", "empty"} :
                /\ Fails(outcome # "row")
                /\ IF outcome = "row"
                   THEN /\ bookings' = bookings \cup {row}
                        /\ req' = [req EXCEPT ![r].pc = "decrement_seats",
                                              ![r].bookingId = row.id,
                                              ![r].insertOutcome = "row",
                                              ![r].wrote = @ \cup {"bookings"}]
                   ELSE /\ req' = [req EXCEPT ![r].pc = "decrement_seats",
                                              ![r].result = "booking_failed",
                                              ![r].insertOutcome = outcome]
                        /\ UNCHANGED bookings
  /\ UNCHANGED <<profiles, trips, submitted, seatsChecked, initialSeats, mw, api, ft, pg>>

\* STEP 4: insert the booking row and read it back
CreateBooking(r) ==
  /\ req[r].pc = "create_booking"
  /\ touched' = [touched EXCEPT ![r] = @ \cup {"bookings"}]
  /\ LET row == [id |-> NewBookingId(bookings), trip_id |-> req[r].tripId,
                 passenger_id |-> req[r].userId]
     IN  IF ~(/\ no_duplicate_booking(bookings, row)
              /\ no_self_booking(row)
              /\ bookings_fkeys(profiles, row))
         THEN /\ req' = [Finish(r, "booking_failed") EXCEPT
                           ![r].insertOutcome = "refused"]
              /\ UNCHANGED <<bookings, faults>>
         ELSE \E outcome \in {"row", "error", "empty"} :
                /\ Fails(outcome # "row")
                /\ IF outcome = "row"
                   THEN /\ bookings' = bookings \cup {row}
                        /\ req' = [req EXCEPT ![r].pc = "decrement_seats",
                                              ![r].bookingId = row.id,
                                              ![r].insertOutcome = "row",
                                              ![r].wrote = @ \cup {"bookings"}]
                   ELSE /\ req' = [Finish(r, "booking_failed") EXCEPT
                                     ![r].insertOutcome = outcome]
                        /\ UNCHANGED bookings
  /\ UNCHANGED <<profiles, trips, submitted, seatsChecked, initialSeats, mw, api, ft, pg>>

DecrementSeatsAbortOnError(r) ==
  /\ req[r].pc = "decrement_seats"
  /\ touched' = [touched EXCEPT ![r] = @ \cup {"trips"}]
  /\ LET seats == req[r].trip.available_seats - 1
     IN  IF seatsChecked /\ ~valid_seats(seats)
         THEN /\ req' = [Finish(r, "booking_failed") EXCEPT
                           ![r].updateError = TRUE]
              /\ UNCHANGED <<trips, faults>>
         ELSE \E failed \in BOOLEAN :
                /\ Fails(failed)
                /\ IF failed
                   THEN /\ req' = [Finish(r, "booking_failed") EXCEPT
                                     ![r].updateError = TRUE]
                        /\ UNCHANGED trips
                   ELSE /\ trips' = [trips EXCEPT
                                       ![req[r].tripId].available_seats = seats]
                        /\ req' = [req EXCEPT ![r].pc = "fetch_driver",
                                              ![r].wrote = @ \cup {"trips"}]
  /\ UNCHANGED <<profiles, bookings, submitted, seatsChecked, initialSeats, mw, api, ft, pg>>

\* STEP 5: write the loaded seat count minus one; an error is logged and ignored
DecrementSeats(r) ==
  /\ req[r].pc = "decrement_seats"
  /\ touched' = [touched EXCEPT ![r] = @ \cup {"trips"}]
  /\ LET seats == req[r].trip.available_seats - 1
     IN  IF seatsChecked /\ ~valid_seats(seats)
         THEN /\ req' = [req EXCEPT ![r].pc = "fetch_driver",
                                    ![r].updateError = TRUE]
              /\ UNCHANGED <<trips, faults>>
         ELSE \E failed \in BOOLEAN :
                /\ Fails(failed)
                /\ IF failed
                   THEN /\ req' = [req EXCEPT ![r].pc = "fetch_driver",
                                              ![r].updateError = TRUE]
                        /\ UNCHANGED trips
                   ELSE /\ trips' = [trips EXCEPT
                                       ![req[r].tripId].available_seats = seats]
                        /\ req' = [req EXCEPT ![r].pc = "fetch_driver",
                                              ![r].wrote = @ \cup {"trips"}]
  /\ UNCHANGED <<profiles, bookings, submitted, seatsChecked, initialSeats, mw, api, ft, pg>>

\* STEP 6 and STEP 7: select the driver's profile, render the confirmation
FetchDriver(r) ==
  /\ req[r].pc = "fetch_driver"
  /\ touched' = [touched EXCEPT ![r] = @ \cup {"profiles"}]
  /\ req' = Finish(r, "confirmed")
  /\ UNCHANGED <<profiles, trips, bookings, submitted, faults, seatsChecked, initialSeats, mw, api, ft, pg>>

\* ------------------------------------------------------ the trip pages
TRIPS_LIMIT == 10
MaxLimit == 50

\* a parameter of the query string: absent, or the digits of a number; the
\* string is never empty, so it is true to JavaScript whatever the number
NoParam == [type |-> "undefined", num |-> 0, value |-> 0]
Digits(n) == [type |-> "string", num |-> 1, value |-> n]

MathMax(a, b) == IF a >= b THEN a ELSE b
MathMin(a, b) == IF a <= b THEN a ELSE b

\* parseInt(param) || otherwise
ParseIntOr(param, otherwise) ==
  IF param.type = "undefined" \/ param.value = 0 THEN otherwise
  ELSE param.value

parsePaginationParams(query) ==
  LET page == MathMax(1, ParseIntOr(query.page, 1))
      limit == MathMin(MaxLimit,
                        MathMax(1, ParseIntOr(query.limit, TRIPS_LIMIT)))
  IN  [page |-> page, limit |-> limit, offset |-> (page - 1) * limit]

\* the filters of a query without origin and destination
buildTripFilters(query) ==
  [departure_gte |-> Now,
   price_gte |-> IF Not(query.min_price) THEN Undefined
                 ELSE Num(query.min_price.value),
   price_lte |-> IF Not(query.max_price) THEN Undefined
                 ELSE Num(query.max_price.value)]

\* the rows of trips the pages read: id, driver, departure and price.  The
\* departures differ, so that the order by departure is one order
TripRows ==
  {[id |-> 1, driver_id |-> "d1", departure_timestamp |-> PastTime,
    price |-> 5],
   [id |-> 2, driver_id |-> "d1", departure_timestamp |-> FutureTime,
    price |-> 0],
   [id |-> 3, driver_id |-> "d1", departure_timestamp |-> FutureTime + 1,
    price |-> 5],
   [id |-> 4, driver_id |-> "d1", departure_timestamp |-> FutureTime + 2,
    price |-> 10]}

\* a store error: its code and its message
NoStoreError == [code |-> "none", message |-> "none"]
Messages == {"relation \"trips\" is locked", "connection to 10.0.0.5 lost"}
StoreErrors ==
  {[code |-> c, message |-> m] :
     c \in {"PGRST204", "42501", "XX000", "23514"}, m \in Messages}

\* .single() on no row
NoRowsError ==
  [code |-> "PGRST116",
   message |-> "JSON object requested, multiple (or no) rows returned"]

RECURSIVE OrderByDeparture(_)
OrderByDeparture(rows) ==
  IF rows = {} THEN <<>>
  ELSE LET first == CHOOSE x \in rows :
                      \A y \in rows :
                        x.departure_timestamp <= y.departure_timestamp
       IN  <<first>> \o OrderByDeparture(rows \ {first})

\* .range(from, to) of a sequence of rows
Range(rows, from, to) ==
  SubSeq(rows, from + 1, MathMin(to + 1, Len(rows)))

\* fetchTrips(pagination, filters): the count of the trips relation, and
\* the filtered, ordered page
fetchTrips(pagination, filters, store, outcome, error) ==
  IF outcome = "fails"
  THEN [data |-> <<>>, count |-> 0, error |-> error]
  ELSE LET selected ==
             {t \in store :
                /\ t.departure_timestamp >= filters.departure_gte
                /\ Not(filters.price_gte) \/ t.price >= filters.price_gte.num
                /\ Not(filters.price_lte) \/ t.price <= filters.price_lte.num}
       IN  [data |-> Range(OrderByDeparture(selected), pagination.offset,
                           pagination.offset + pagination.limit - 1),
            count |-> Cardinality(store),
            error |-> NoStoreError]

\* Math.ceil(a / b) for b > 0
Ceil(a, b) == (a + b - 1) \div b

\* what a page request answers: the status, the body (or the redirect and
\* the flash message), the details field, and for the listing and the
\* detail page the fields the claims are about
NoPagination == [page |-> 0, limit |-> 0, total |-> 0, totalPages |-> 0]

Response(status, body, details) ==
  [status |-> status, body |-> body, details |-> details,
   redirect |-> "none", flash |-> <<>>, trips |-> <<>>,
   pagination |-> NoPagination, canBook |-> FALSE, isPastTrip |-> FALSE,
   queried |-> FALSE]

\* details: process.env.NODE_ENV === 'development' ? message : undefined
DevelopmentOnly(env, message) ==
  IF env = "development" THEN message ELSE NoValue

\* GET /trips
ListTripsResponse(p) ==
  LET pagination == parsePaginationParams(p.query)
      filters == buildTripFilters(p.query)
      fetched == fetchTrips(pagination, filters, p.store, p.outcome, p.error)
  IN  IF fetched.error # NoStoreError
      THEN [Response(500, "Failed to load trips. Please try again later.",
                     DevelopmentOnly(p.env, fetched.error.message))
              EXCEPT !.queried = TRUE]
      ELSE [Response(200, "trips/index", NoValue) EXCEPT
              !.queried = TRUE,
              !.trips = fetched.data,
              !.pagination =
                 [page |-> pagination.page, limit |-> pagination.limit,
                  total |-> fetched.count,
                  totalPages |-> Ceil(fetched.count, pagination.limit)]]

\* validateTripId(tripId): the UUID pattern matches
validateTripId(tripId) == tripId.shape = "uuid"

\* fetchTripById(tripId): .eq('id', tripId).single()
fetchTripById(tripId, store, outcome, error) ==
  IF outcome = "fails" THEN [found |-> FALSE, error |-> error]
  ELSE IF \E t \in store : t.id = tripId.id
       THEN [found |-> TRUE, error |-> NoStoreError]
       ELSE [found |-> FALSE, error |-> NoRowsError]

\* GET /trips/:id
ShowTripResponse(p) ==
  IF ~validateTripId(p.id)
  THEN Response(400, "Invalid trip ID format",
                DevelopmentOnly(p.env, "Invalid trip ID format"))
  ELSE LET fetched == fetchTripById(p.id, p.store, p.outcome, p.error)
       IN  IF fetched.error # NoStoreError
           THEN [Response(500,
                          "Failed to load trip details. Please try again later.",
                          DevelopmentOnly(p.env, fetched.error.message))
                   EXCEPT !.queried = TRUE]
           ELSE IF ~fetched.found
                THEN [Response(404, "Trip not found", "No trip found with ID")
                        EXCEPT !.queried = TRUE]
                ELSE LET trip == CHOOSE t \in p.store : t.id = p.id.id
                     IN  [Response(200, "trips/detail", NoValue) EXCEPT
                            !.queried = TRUE,
                            !.isPastTrip = trip.departure_timestamp < Now,
                            !.canBook = canBook(p.user, trip)]

\* handleFormResponse(req, res, success, message, redirectUrl)
handleFormResponse(html, success, message, redirectUrl) ==
  IF html
  THEN [Response(302, "none", NoValue) EXCEPT
          !.redirect = IF success THEN "/trips" ELSE redirectUrl,
          !.flash = message]
  ELSE [Response(IF success THEN 201 ELSE 400, "json", NoValue) EXCEPT
          !.flash = message]

\* POST /trips/create of an authenticated caller with valid trip data: the
\* insert of the trip and the response to its result
CreateTripResponse(p) ==
  IF p.outcome # "fails"
  THEN handleFormResponse(p.html, TRUE, <<"Trip created successfully!">>,
                          "/trips/create")
  ELSE IF p.error.code = "PGRST204"
  THEN handleFormResponse(p.html, FALSE,
         <<"Failed to create trip. The database schema may not support this operation. Please contact support.">>,
         "/trips/create")
  ELSE IF p.error.code = "42501"
  THEN handleFormResponse(p.html, FALSE,
         <<"Authentication required to create trips. Please sign in first.">>,
         "/auth/login?redirect=%2Ftrips%2Fcreate")
  ELSE IF p.error.code = "XX000"
  THEN handleFormResponse(p.html, FALSE,
         <<"Route data format error. Please try again with different addresses.">>,
         "/trips/create")
  ELSE handleFormResponse(p.html, FALSE,
         <<"Failed to create trip. Database error: ", p.error.message,
           ". Please try again.">>,
         "/trips/create")

\* POST /trips/:id/book when the insert of the profile (step) or of the
\* booking returns an error: the redirect with its error code and details
BookingErrorResponse(p) ==
  [Response(302, "none", p.error.message) EXCEPT
     !.redirect = <<"/trips/", p.id.id, "?error=", p.step, "&details=">>]

ResponseOf(p) ==
  CASE p.op = "GET /trips" -> ListTripsResponse(p)
    [] p.op = "GET /trips/:id" -> ShowTripResponse(p)
    [] p.op = "POST /trips/create" -> CreateTripResponse(p)
    [] p.op = "POST /trips/:id/book" -> BookingErrorResponse(p)

NoQuery == [page |-> NoParam, limit |-> NoParam, min_price |-> NoParam,
            max_price |-> NoParam]

IdlePage ==
  [op |-> "none", pc |-> "idle", env |-> "production", user |-> Anonymous,
   html |-> FALSE, id |-> [shape |-> "uuid", id |-> 2], step |-> "none",
   query |-> NoQuery, store |-> TripRows, outcome |-> "answers",
   error |-> NoStoreError, response |-> Response(0, "none", NoValue)]

ListTrips ==
  /\ pg.pc = "received"
  /\ pg.op = "GET /trips"
  /\ pg' = [pg EXCEPT !.pc = "done", !.response = ListTripsResponse(pg)]
  /\ UNCHANGED <<profiles, trips, bookings, req, submitted, faults,
                 seatsChecked, initialSeats, touched, mw, api, ft>>

ShowTrip ==
  /\ pg.pc = "received"
  /\ pg.op = "GET /trips/:id"
  /\ pg' = [pg EXCEPT !.pc = "done", !.response = ShowTripResponse(pg)]
  /\ UNCHANGED <<profiles, trips, bookings, req, submitted, faults,
                 seatsChecked, initialSeats, touched, mw, api, ft>>

CreateTrip ==
  /\ pg.pc = "received"
  /\ pg.op = "POST /trips/create"
  /\ pg' = [pg EXCEPT !.pc = "done", !.response = CreateTripResponse(pg)]
  /\ UNCHANGED <<profiles, trips, bookings, req, submitted, faults,
                 seatsChecked, initialSeats, touched, mw, api, ft>>

BookingWriteFails ==
  /\ pg.pc = "received"
  /\ pg.op = "POST /trips/:id/book"
  /\ pg' = [pg EXCEPT !.pc = "done", !.response = BookingErrorResponse(pg)]
  /\ UNCHANGED <<profiles, trips, bookings, req, submitted, faults,
                 seatsChecked, initialSeats, touched, mw, api, ft>>

\* --------------------------------------------------------- specifications
InitStoreAt(checked, departures) ==
  /\ seatsChecked \in checked
  /\ profiles \in {Drivers, Users}
  /\ trips \in [TripIds -> {[driver_id |-> d, available_seats |-> n,
                              departure_timestamp |-> dep] :
                               d \in Drivers, n \in 1..MaxSeats,
                               dep \in departures}]
  /\ \A t \in TripIds : trips[t].driver_id = DriverOf[t]
  /\ initialSeats = [t \in TripIds |-> trips[t].available_seats]
  /\ bookings = {}
  /\ req = [r \in Requests |-> IdleRequest]
  /\ submitted = 0
  /\ faults = 0
  /\ touched = [r \in Requests |-> {}]

\* a store whose trips depart after the requests
InitStore(checked) == InitStoreAt(checked, {FutureTime})

\* the store of the shipped schema: trips carries valid_seats
Init ==
  /\ InitStore({TRUE})
  /\ mw = IdleMiddleware
  /\ api = IdleApi
  /\ ft = IdleFetch
  /\ pg = IdlePage

\* any store: trips with or without valid_seats
InitAnyStore ==
  /\ InitStore(BOOLEAN)
  /\ mw = IdleMiddleware
  /\ api = IdleApi
  /\ ft = IdleFetch
  /\ pg = IdlePage

\* the shipped schema with trips that departed before the requests
InitDeparted ==
  /\ InitStoreAt({TRUE}, {PastTime})
  /\ mw = IdleMiddleware
  /\ api = IdleApi
  /\ ft = IdleFetch
  /\ pg = IdlePage

\* a store no booking request is running on
StoreAtRest ==
  /\ seatsChecked = TRUE
  /\ profiles = Users
  /\ trips = [t \in TripIds |->
               [driver_id |-> DriverOf[t], available_seats |-> 1,
                departure_timestamp |-> FutureTime]]
  /\ initialSeats = [t \in TripIds |-> 1]
  /\ bookings = {}
  /\ req = [r \in Requests |-> IdleRequest]
  /\ submitted = 0
  /\ faults = 0
  /\ touched = [r \in Requests |-> {}]

\* one request with any cookie, header and provider behaviour reaches either
\* middleware
InitAuth ==
  /\ StoreAtRest
  /\ api = IdleApi
  /\ ft = IdleFetch
  /\ pg = IdlePage
  /\ mw \in {[IdleMiddleware EXCEPT !.mode = m, !.pc = "received",
                                    !.cookie = c, !.header = h,
                                    !.provider = p] :
               m \in {"requireAuth", "optionalAuth"}, c \in Cookies,
               h \in Headers, p \in Providers}

NextAuth == RunRequireAuth \/ RunOptionalAuth

\* one call with any arguments, environment and behaviour of the services
ApiCalls ==
  {[IdleApi EXCEPT !.op = "getRoute", !.pc = "received", !.origin = o,
                   !.destination = d, !.apiKey = k, !.routing = g] :
     o \in NumericPoints, d \in NumericPoints, k \in ApiKeys,
     g \in RoutingOutcomes}
  \cup
  {[IdleApi EXCEPT !.op = "POST /api/route", !.pc = "received", !.origin = o,
                   !.destination = d, !.envKey = k, !.routing = g] :
     o \in Points, d \in Points, k \in {NoKey, ValidKey},
     g \in RoutingOutcomes}
  \cup
  {[IdleApi EXCEPT !.op = "POST /api/geocode", !.pc = "received",
                   !.address = a, !.limit = l, !.geocoder = g] :
     a \in {Undefined, Num(7), Text(0), Text(5)}, l \in {Num(1), Num(5)},
     g \in GeocoderOutcomes}
  \cup
  {[IdleApi EXCEPT !.op = "GET /api/health", !.pc = "received",
                   !.storage = st, !.envKey = k, !.orsHealth = h] :
     st \in {"rows", "error", "throws"}, k \in ApiKeys, h \in {"ok", "fails"}}

InitApi ==
  /\ StoreAtRest
  /\ mw = IdleMiddleware
  /\ ft = IdleFetch
  /\ pg = IdlePage
  /\ api \in ApiCalls

NextApi == CallGetRoute \/ PostRoute \/ PostGeocode \/ GetHealth

Next ==
  \E r \in Requests :
    \/ Submit(r)
    \/ CheckProfile(r)
    \/ CreateProfile(r)
    \/ GetTrip(r)
    \/ CheckExistingBooking(r)
    \/ CreateBooking(r)
    \/ DecrementSeats(r)
    \/ FetchDriver(r)

Spec == Init /\ [][Next]_vars

SpecAnyStore == InitAnyStore /\ [][Next]_vars

SpecDeparted == InitDeparted /\ [][Next]_vars

SpecAuth == InitAuth /\ [][NextAuth]_vars

SpecApi == InitApi /\ [][NextApi]_vars

Environments == {"production", "development", "test"}

\* the ids of GET /trips/:id: the id of a future trip, of a past trip, of no
\* trip, and a text that is no UUID
PageIds == {[shape |-> "uuid", id |-> 2], [shape |-> "uuid", id |-> 1],
            [shape |-> "uuid", id |-> 9], [shape |-> "garbage", id |-> 0]}

\* one request with any query, store, environment and store behaviour
PageRequests ==
  {[IdlePage EXCEPT !.op = "GET /trips", !.pc = "received", !.store = st,
                    !.query = [page |-> pa, limit |-> li, min_price |-> lo,
                               max_price |-> hi]] :
     st \in SUBSET TripRows, pa \in {NoParam, Digits(2)},
     li \in {NoParam, Digits(1), Digits(2)},
     lo \in {NoParam, Digits(0), Digits(5)},
     hi \in {NoParam, Digits(0), Digits(5)}}
  \cup
  {[IdlePage EXCEPT !.op = "GET /trips/:id", !.pc = "received", !.id = i,
                    !.user = u, !.env = e] :
     i \in PageIds, u \in {Anonymous, "p1", "d1"}, e \in Environments}
  \cup
  {[IdlePage EXCEPT !.op = "POST /trips/create", !.pc = "received",
                    !.user = "d1", !.html = h] : h \in BOOLEAN}
  \cup
  {[IdlePage EXCEPT !.op = o, !.pc = "received", !.user = "d1", !.html = h,
                    !.env = e, !.outcome = "fails", !.error = err] :
     o \in {"GET /trips", "GET /trips/:id", "POST /trips/create"},
     h \in BOOLEAN, e \in Environments, err \in StoreErrors}
  \cup
  {[IdlePage EXCEPT !.op = "POST /trips/:id/book", !.pc = "received",
                    !.user = "p1", !.step = c, !.env = e,
                    !.outcome = "fails", !.error = err] :
     c \in {"profile_failed", "booking_failed"}, e \in Environments,
     err \in StoreErrors}

InitPages ==
  /\ StoreAtRest
  /\ mw = IdleMiddleware
  /\ api = IdleApi
  /\ ft = IdleFetch
  /\ pg \in PageRequests

NextPages == ListTrips \/ ShowTrip \/ CreateTrip \/ BookingWriteFails

SpecPages == InitPages /\ [][NextPages]_vars

\* one call of fetchWithTimeout with any number of retries
InitFetch ==
  /\ StoreAtRest
  /\ mw = IdleMiddleware
  /\ api = IdleApi
  /\ pg = IdlePage
  /\ ft \in {[IdleFetch EXCEPT !.pc = "entered", !.given = r, !.retries = r] :
               r \in 0..MaxRetries}

NextFetch == FetchAttempt \/ FetchSettles \/ FetchRetry

\* the event loop runs every callback that is due, and a fetch always
\* settles: at the latest its timeout timer aborts it
SpecFetch == InitFetch /\ [][NextFetch]_vars /\ WF_vars(NextFetch)

\* ------------------------------------------------------------------ claims
Answered(r) == req[r].pc = "done" /\ req[r].result # "none"
Booked(t, u) == \E b \in bookings : b.trip_id = t /\ b.passenger_id = u
ReadCheckCodes == {"trip_not_found", "driver_booking", "no_seats", "already_booked"}

\* C1: as long as no store write failed on its own, a trip never has more
\* Booking rows than the available_seats it started with (so of two requests
\* that overlap on the last seat only one creates a row).
C1_BookingsWithinInitialSeats ==
  faults = 0 =>
    \A t \in TripIds : Cardinality(BookingsOf(t)) <= initialSeats[t]

\* C2: the stored available_seats of every trip is never negative, with or
\* without the valid_seats constraint on the trips relation.
C2_SeatsNeverNegative == \A t \in TripIds : trips[t].available_seats >= 0

\* C2 witness: a trip booked down to 0 seats by two bookings
C2_Witness ==
  \E t \in TripIds : /\ trips[t].available_seats = 0
                     /\ Cardinality(BookingsOf(t)) >= 2

\* C3: at most one Booking row for each (trip_id, passenger_id).
C3_OneBookingPerPair ==
  \A a, b \in bookings :
    (a.trip_id = b.trip_id /\ a.passenger_id = b.passenger_id) => a = b

\* C3 witness: a second insert for a pair that already has its row was refused
C3_Witness ==
  \E r \in Requests : /\ req[r].insertOutcome = "refused"
                      /\ Booked(req[r].tripId, req[r].userId)

\* C4: when no handler is running and no store write failed on its own,
\* available_seats of every trip is its initial value minus the number of
\* its Booking rows.
C4_SeatsMatchBookings ==
  (faults = 0 /\ \A r \in Requests : Free(r)) =>
    \A t \in TripIds :
      trips[t].available_seats = initialSeats[t] - Cardinality(BookingsOf(t))

\* C5: a request whose booking insert is refused because the caller already
\* has a Booking row for the trip is answered already_booked.
C5_SecondAttemptAlreadyBooked ==
  \A r \in Requests :
    (Answered(r) /\ req[r].insertOutcome = "refused")
      => req[r].result = "already_booked"

C8_RejectedWroteNothing ==
  \A r \in Requests :
    (Answered(r) /\ req[r].result \in ReadCheckCodes) => req[r].wrote = {}

\* C8: a request rejected by a read check has written neither trips nor
\* bookings; the one write it can have made is the insert of the caller's
\* own Profile row in step 1.
C8_RejectedWroteOnlyProfile ==
  \A r \in Requests :
    (Answered(r) /\ req[r].result \in ReadCheckCodes)
      => /\ req[r].wrote \subseteq {"profiles"}
         /\ ("profiles" \in req[r].wrote => req[r].userId \in profiles)

\* C8 witness: a rejected request that had created the caller's profile
C8_Witness ==
  \E r \in Requests : /\ Answered(r)
                      /\ req[r].result \in ReadCheckCodes
                      /\ req[r].wrote = {"profiles"}

\* C9: a request whose booking insert failed (refused, store error, or no
\* row returned) ends at once with booking_failed and has not written trips.
C9_InsertFailureAborts ==
  \A r \in Requests :
    req[r].insertOutcome \in {"refused", "error", "empty"}
      => /\ req[r].pc = "done"
         /\ req[r].result = "booking_failed"
         /\ "trips" \notin req[r].wrote

\* C9 witness: an insert that failed on its own
C9_Witness ==
  \E r \in Requests : /\ req[r].insertOutcome \in {"error", "empty"}
                      /\ req[r].result = "booking_failed"

C10_State ==
  \A r \in Requests :
    req[r].updateError
      => /\ req[r].pc \in {"fetch_driver", "done"}
         /\ req[r].pc = "done" => req[r].result = "confirmed"
         /\ \E b \in bookings : /\ b.id = req[r].bookingId
                                /\ b.trip_id = req[r].tripId
                                /\ b.passenger_id = req[r].userId

C10_Step ==
  \A r \in Requests :
    (req[r].pc = "decrement_seats" /\ req'[r].updateError)
      => (trips' = trips /\ bookings' = bookings)

\* C10: a request whose seat update failed after its insert still renders
\* the confirmation with its booking id, its Booking row stays in the store,
\* and the failed update leaves available_seats as it was.
C10_UpdateFailureStillConfirms == []C10_State /\ [][C10_Step]_vars

\* C10 witness: a confirmed request whose seat update failed
C10_Witness ==
  \E r \in Requests : /\ req[r].updateError
                      /\ req[r].pc = "done"
                      /\ req[r].result = "confirmed"
                      /\ req[r].bookingId # NoBooking

\* C11: as long as no store write failed on its own, no request is answered
\* profile_failed, however the requests of one caller overlap.
C11_ProfileEnsureIdempotent ==
  faults = 0 => \A r \in Requests : req[r].result # "profile_failed"

\* C12: a request of an authenticated caller whose trip id is not a UUID is
\* answered with a validation error and has called no relation of the store.
C12_MalformedTripIdRejectedFirst ==
  \A r \in Requests :
    (Answered(r) /\ req[r].tripId = MalformedTripId
                 /\ req[r].validated # Anonymous)
      => /\ req[r].result = "validation_error"
         /\ touched[r] = {}

C13_State ==
  /\ \A r \in Requests :
       (req[r].pc # "idle" /\ req[r].validated = Anonymous)
         => /\ req[r].pc = "done"
            /\ req[r].result = "login"
            /\ touched[r] = {}
            /\ req[r].wrote = {}
  /\ \A r \in Requests :
       req[r].result = "confirmed"
         => /\ req[r].insertOutcome = "row"
            /\ \E b \in bookings : /\ b.id = req[r].bookingId
                                   /\ b.trip_id = req[r].tripId
                                   /\ b.passenger_id = req[r].validated

C13_Step ==
  \A b \in bookings' \ bookings :
    \E r \in Requests : /\ req[r].pc = "create_booking"
                        /\ req'[r].bookingId = b.id
                        /\ b.trip_id = req[r].tripId
                        /\ b.passenger_id = req[r].validated
                        /\ req[r].validated # Anonymous

\* C13: a request for which the provider validated no caller is sent to the
\* login page having called no relation; every Booking row is inserted by a
\* request whose provider-validated caller is its passenger_id; and a request
\* renders the confirmation only having inserted the row of (trip, caller).
C13_BookingsOfValidatedCallers == []C13_State /\ [][C13_Step]_vars

\* C13 witness: a request with a rejected cookie token was sent to the login
\* page while another request was confirmed
C13_Witness ==
  \E r, q \in Requests : /\ req[r].result = "login"
                         /\ req[q].result = "confirmed"
                         /\ req[q].validated \in Users

\* the caller the provider validated for the token the middleware presented
ValidatedBy(m) ==
  IF m.out.token # NoToken /\ m.provider = "answers"
  THEN getUser(m.out.token) ELSE Anonymous

\* C14: requireAuth either calls next() once with req.user set to the caller
\* the provider validated for the request's token, or (no token, token
\* rejected, provider call throws) redirects to /auth/login without calling
\* next(); optionalAuth calls next() once and never redirects, and sets
\* req.user exactly when the provider validated the request's token.
C14_MiddlewareOutcomes ==
  mw.pc = "done" =>
    /\ mw.mode = "requireAuth" =>
         IF ValidatedBy(mw) # Anonymous
         THEN /\ mw.out.next = 1
              /\ mw.out.redirect = "none"
              /\ mw.out.user = ValidatedBy(mw)
         ELSE /\ mw.out.next = 0
              /\ mw.out.redirect = "/auth/login"
              /\ mw.out.user = Anonymous
    /\ mw.mode = "optionalAuth" =>
         /\ mw.out.next = 1
         /\ mw.out.redirect = "none"
         /\ mw.out.user = ValidatedBy(mw)
    /\ mw.out.asked <=> mw.out.token # NoToken

\* C14 witness: requireAuth turned away a request whose token the provider
\* rejected
C14_Witness ==
  /\ mw.pc = "done"
  /\ mw.mode = "requireAuth"
  /\ mw.out.token = "old_p2"
  /\ mw.out.asked
  /\ mw.out.redirect = "/auth/login"

\* the token of an 'Authorization: Bearer <token>' header
BearerToken(header) ==
  IF Len(header) = 2 /\ header[1] = "Bearer" /\ ~Falsy(header[2])
  THEN header[2] ELSE NoToken

\* C15: the token of a request is its cookie value when it has one, otherwise
\* the token of its Bearer header, otherwise null.
C15_CookieThenBearerThenNull ==
  mw.pc = "done" =>
    mw.out.token = IF ~Falsy(mw.cookie) THEN mw.cookie
                   ELSE BearerToken(mw.header)

\* C16: getRoute called with a key that passes the format check returns a
\* route whatever the provider call does; when the provider call fails the
\* route is the straight-line route of the same two points.
C16_RouteForEveryProviderOutcome ==
  (api.op = "getRoute" /\ api.pc = "done") =>
    /\ ~api.thrown
    /\ api.route.keys = RouteKeys
    /\ (api.attempted /\ api.routing # "routes") =>
         /\ api.route.source = "fallback"
         /\ api.route.coordinates =
              getSimpleRoute(api.origin, api.destination).coordinates
         /\ api.route.bbox = getSimpleRoute(api.origin, api.destination).bbox

\* C16 witness: the provider was called, failed, and the fallback was returned
C16_Witness ==
  /\ api.op = "getRoute"
  /\ api.pc = "done"
  /\ api.attempted
  /\ api.routing = "fails"
  /\ api.route.source = "fallback"

\* C17: a POST /api/route request that gets a route has called the provider
\* exactly when OPENROUTESERVICE_API_KEY passes the format check.
C17_ProviderAttemptedWhenConfigured ==
  (api.op = "POST /api/route" /\ api.pc = "done" /\ api.status = 200) =>
    (api.attempted <=> validateApiKey(api.envKey))

\* C18: a geocode request with an address whose provider call fails is
\* answered with the empty result {suggestions: []}, and no error is thrown.
C18_GeocodeFailureGivesEmptyResult ==
  (api.op = "POST /api/geocode" /\ api.pc = "done"
     /\ api.status # 400 /\ api.geocoder = "fails") =>
    /\ ~api.thrown
    /\ api.status = 200
    /\ api.body = "suggestions"
    /\ api.places = 0

\* C19: POST /api/route answers 400 only for a missing point or a coordinate
\* that is not a number; two points with numeric coordinates, 0 included, get
\* a route with distance, duration, geometry and bbox whose fallback geometry
\* has 2 coordinate pairs.
C19_NumericPointsGetARoute ==
  (api.op = "POST /api/route" /\ api.pc = "done") =>
    /\ api.status = 400 =>
         ~(api.origin \in NumericPoints /\ api.destination \in NumericPoints)
    /\ (api.origin \in NumericPoints /\ api.destination \in NumericPoints) =>
         /\ api.status = 200
         /\ api.route.keys = RouteKeys
         /\ api.route.source = "fallback" => Len(api.route.coordinates) = 2

\* C20: GET /api/health answers 200 healthy when the storage check is healthy
\* and the routing provider is healthy or not_configured, and answers 503
\* degraded only when a checked service is unhealthy.
C20_HealthyWhenAllServicesHealthy ==
  (api.op = "GET /api/health" /\ api.pc = "done") =>
    LET checked == {api.services.supabase, api.services.openrouteservice}
    IN  /\ (\A v \in checked : v.status \in {"healthy", "not_configured"})
             => (api.status = 200 /\ api.body = "healthy")
        /\ (api.status = 503 /\ api.body = "degraded")
             => \E v \in checked : v.status = "unhealthy"

\* C27: when a single request was ever submitted and no store write failed on
\* its own, a confirmed booking leaves the stored available_seats at the
\* value the request loaded minus one.
C27_ConfirmedBookingDecrements ==
  \A r \in Requests :
    (submitted = 1 /\ faults = 0 /\ req[r].result = "confirmed")
      => trips[req[r].tripId].available_seats
           = req[r].trip.available_seats - 1

C28_Step ==
  \A r \in Requests :
    (req[r].pc = "decrement_seats" /\ "trips" \in req'[r].wrote)
      => trips'[req[r].tripId].available_seats
           < trips[req[r].tripId].available_seats

\* C28: every write of a trip's available_seats by a booking request stores
\* a value strictly less than the value stored just before the write.
C28_SeatWritesOnlyLower == [][C28_Step]_vars

\* C29: every Booking row was inserted by a request for which the trip
\* detail page reports canBook: no Booking row is of a trip whose departure
\* is before the requests.
C29_NoBookingOfDepartedTrip ==
  /\ \A b \in bookings : trips[b.trip_id].departure_timestamp > Now
  /\ \A r \in Requests :
       "bookings" \in req[r].wrote => canBook(req[r].userId, req[r].trip)

\* C25: a call of fetchWithTimeout with the default retries makes at most 2
\* fetch attempts, and every wait between two attempts is 1 second.
C25_DefaultAtMostTwoAttempts ==
  ft.given = RetriesDefault =>
    /\ Len(ft.history) <= 2
    /\ \A i \in 1..Len(ft.waits) : ft.waits[i] = 1000

\* the failures the allow-list names: abort or timeout, connection reset,
\* DNS failure, HTTP 5xx
AllowListed == {"timeout", "reset", "dns", "http_5xx"}

\* C26: an attempt is followed by another only when it failed in an
\* allow-listed way; any other failure is raised after that one attempt.
C26_RetryOnlyAllowListed ==
  \A i \in 1..Len(ft.history) :
    (i < Len(ft.history) \/ ft.pc = "waiting") => ft.history[i] \in AllowListed

C30_State ==
  /\ Len(ft.history) <= ft.given + 1
  /\ ft.pc \in {"returned", "raised"} => ft.timers = 0
  /\ ft.pc = "returned" =>
       /\ ft.history[Len(ft.history)] = "ok"
       /\ \A i \in 1..(Len(ft.history) - 1) : ft.history[i] # "ok"
  /\ ft.pc = "raised" =>
       /\ ft.history[Len(ft.history)] # "ok"
       /\ ft.error = ErrorOf(ft.history[Len(ft.history)])

\* C30: a call of fetchWithTimeout with r retries settles, after at most
\* r + 1 attempts, returning the first ok response or raising the error of
\* its last attempt, and with no timeout timer of the call pending.
C30_SettlesWithinRetries ==
  []C30_State /\ <>(ft.pc \in {"returned", "raised"})

\* C30 witness: a call that used all its attempts and raised the last error
C30_Witness ==
  /\ ft.pc = "raised"
  /\ ft.given = RetriesDefault
  /\ Len(ft.history) = ft.given + 1
  /\ ft.timers = 0

\* the trips of the store that match the filters of the request
Matching(p) ==
  {t \in p.store :
     /\ t.departure_timestamp >= Now
     /\ p.query.min_price # NoParam => t.price >= p.query.min_price.value
     /\ p.query.max_price # NoParam => t.price <= p.query.max_price.value}

\* C21: the listing's pagination.total is the number of trips that match
\* the filters, the future-departure filter included, and totalPages is
\* ceil(total / limit).
C21_TotalCountsMatchingTrips ==
  (pg.op = "GET /trips" /\ pg.pc = "done" /\ pg.response.status = 200) =>
    /\ pg.response.pagination.total = Cardinality(Matching(pg))
    /\ pg.response.pagination.totalPages
         = Ceil(Cardinality(Matching(pg)), pg.response.pagination.limit)

\* C22: every trip the listing returns matches every filter of the request
\* (departure not before the request, price within each supplied bound, 0
\* included), at most limit trips are returned, in ascending departure.
C22_ListedTripsMatchFilters ==
  (pg.op = "GET /trips" /\ pg.pc = "done" /\ pg.response.status = 200) =>
    LET listed == pg.response.trips
    IN  /\ \A i \in 1..Len(listed) : listed[i] \in Matching(pg)
        /\ Len(listed) <= pg.response.pagination.limit
        /\ \A i, j \in 1..Len(listed) :
             i < j => listed[i].departure_timestamp
                        <= listed[j].departure_timestamp

\* C23: the detail page answers 400 for an id that is no UUID without
\* querying the store, 404 for a UUID of no trip, and 500 only when the
\* store query itself fails.
C23_DetailStatuses ==
  (pg.op = "GET /trips/:id" /\ pg.pc = "done") =>
    /\ pg.id.shape # "uuid" =>
         (pg.response.status = 400 /\ ~pg.response.queried)
    /\ (/\ pg.id.shape = "uuid"
        /\ pg.outcome = "answers"
        /\ ~\E t \in pg.store : t.id = pg.id.id) => pg.response.status = 404
    /\ pg.response.status = 500 => pg.outcome = "fails"

\* C24: in production the response to a failed store call is the same
\* whatever the message of the store error is.
C24_ProductionHidesStoreError ==
  (pg.pc = "done" /\ pg.env = "production" /\ pg.outcome = "fails") =>
    \A m \in Messages :
      ResponseOf([pg EXCEPT !.error.message = m]) = pg.response

====
